---- MODULE Spec2Model ----
(***************************************************************************)
(* State-machine model of the fluxclient robot protocol v0002 client       *)
(* (fluxclient/robot/v0002.py) and of the UPnP bootstrap client            *)
(* (fluxclient/upnp/base.py).                                              *)
(*                                                                         *)
(* Bytes are naturals 0..255; text is a sequence of ASCII codes.  Each     *)
(* component of the client has its own specification (SpecFrame, SpecRaw,  *)
(* SpecUpload, ...); the components a specification does not drive stay    *)
(* in their idle state.                                                    *)
(***************************************************************************)
EXTENDS Integers, Sequences, FiniteSets, TLC

VARIABLES
    pc,           \* control position of the call being run
    self,         \* fields of the client object (self.sock, self.remote_addr, ...)
    loc,          \* local variables of the call being run, by their source names
    wire,         \* bytes the client has written with sock.send, in order
    rx,           \* bytes the device has sent and the client has not yet read
    peer_closed,  \* the device closes the stream once rx is exhausted
    outcome       \* how the call ended: [kind |-> "none"] while it runs

vars == <<pc, self, loc, wire, rx, peer_closed, outcome>>

NoOutcome == [kind |-> "none"]

----------------------------------------------------------------------------
(* Bounds of the model *)

\* longest short payload / frame body enumerated byte by byte
MaxPayload == 2

----------------------------------------------------------------------------
(* Byte strings *)

Min(a, b) == IF a < b THEN a ELSE b

\* s[:n] and s[n:]
Take(s, n) == SubSeq(s, 1, Min(n, Len(s)))

Drop(s, n) == SubSeq(s, Min(n, Len(s)) + 1, Len(s))

StartsWith(s, p) == Len(s) >= Len(p) /\ SubSeq(s, 1, Len(p)) = p

SeqsUpTo(S, n) == UNION {[1..k -> S] : k \in 0..n}

\* struct.pack("<H", l): two bytes, least significant first
pack_H(l) == <<l % 256, (l \div 256) % 256>>

\* struct.unpack("<H", b)[0]
unpack_H(b) == b[1] + 256 * b[2]

\* sock.recv(n, socket.MSG_WAITALL): n bytes, or what is left when the peer
\* closes first
recv_waitall(stream, n) == Take(stream, n)

----------------------------------------------------------------------------
(* CommandChannel: _send_cmd and get_resp *)

\* The bytes _send_cmd(buf) hands to self.sock.send
send_cmd_frame(buf) == pack_H(Len(buf) + 2) \o buf

\* The number of payload bytes get_resp reads after a prefix holding l
resp_body_length(l) == l

\* get_resp on a channel holding `stream`, whose peer closes behind it
\* (closed) or stays silent (~closed).
\*   kind: "ok", or the exception raised;  data: the bytes returned;
\*   rest: the bytes left unread on the channel.
get_resp(stream, closed) ==
    IF stream = <<>> /\ ~closed
    THEN [kind |-> "TimeoutError", data |-> <<>>, rest |-> stream]
    ELSE LET bml == recv_waitall(stream, 2)
             after == Drop(stream, 2)
         IN  IF Len(bml) < 2 /\ ~closed
             THEN [kind |-> "socket.timeout", data |-> <<>>, rest |-> <<>>]
             ELSE IF bml = <<>>
             THEN [kind |-> "EPIPE", data |-> <<>>, rest |-> <<>>]
             ELSE IF Len(bml) < 2
             THEN [kind |-> "struct.error", data |-> <<>>, rest |-> <<>>]
             ELSE LET message_length == resp_body_length(unpack_H(bml))
                  IN  IF Len(after) < message_length /\ ~closed
                      THEN [kind |-> "socket.timeout", data |-> <<>>,
                            rest |-> <<>>]
                      ELSE [kind |-> "ok",
                            data |-> recv_waitall(after, message_length),
                            rest |-> Drop(after, message_length)]

----------------------------------------------------------------------------
(* Response text: decoding and the error-string convention *)

\* bytes.decode("ascii", "ignore") and bytes.decode("utf8", "ignore") on the
\* bytes of the model: a byte of 128 or more is no ASCII character and, on
\* its own, no UTF-8 sequence, and is dropped
decode_ignore(b) == SelectSeq(b, LAMBDA c : c < 128)

\* ASCII text used by the protocol
S_ok == <<111, 107>>
S_continue == <<99, 111, 110, 116, 105, 110, 117, 101>>
S_error == <<101, 114, 114, 111, 114>>
S_error_sp == S_error \o <<32>>
S_quit == <<113, 117, 105, 116>>
S_UNKNOW_ERROR == <<85, 78, 75, 78, 79, 87, 95, 69, 82, 82, 79, 82>>

\* index of the first occurrence of byte c in s, 0 when there is none
RECURSIVE find(_, _)
find(s, c) ==
    IF s = <<>> THEN 0
    ELSE IF Head(s) = c THEN 1
    ELSE LET k == find(Tail(s), c) IN IF k = 0 THEN 0 ELSE k + 1

\* str.split(sep) for a one-character separator: every occurrence of sep
\* separates, so adjacent separators give empty pieces
RECURSIVE split(_, _)
split(s, sep) ==
    LET k == find(s, sep)
    IN  IF k = 0 THEN <<s>>
        ELSE <<SubSeq(s, 1, k - 1)>> \o split(SubSeq(s, k + 1, Len(s)), sep)

\* raise_error with the whole text as the one argument
raise_error_fused(ret) ==
    [kind |-> "raise", error |-> "RuntimeError", args |-> <<ret>>]

\* raise_error(ret): always raises RuntimeError; args are its arguments
raise_error(ret) ==
    IF StartsWith(ret, S_error_sp)
    THEN [kind |-> "raise", error |-> "RuntimeError",
          args |-> Tail(split(ret, 32))]
    ELSE [kind |-> "raise", error |-> "RuntimeError",
          args |-> <<S_UNKNOW_ERROR, ret>>]

\* The wrapper ok_or_error(fn, resp) applied to the bytes fn returned
ok_or_error(bret, resp) ==
    LET ret == decode_ignore(bret)
    IN  IF ret = resp THEN [kind |-> "return", value |-> ret]
        ELSE raise_error(ret)

\* An exception other than the ones raise_error builds
Raise(name) == [kind |-> "raise", error |-> name, args |-> <<>>]

----------------------------------------------------------------------------
(* Framing round trip: _send_cmd's frames handed to get_resp *)

\* Bytes a command payload is made of: NUL, a control byte, "A"
FrameBytes == {0, 1, 65}

\* Payloads of 253 and 254 bytes: their frames' length fields are 255 and 256,
\* the second of which needs the high byte of the prefix
LongPayloads == {[i \in 1..n |-> 65] : n \in {253, 254}}

Payloads == SeqsUpTo(FrameBytes, MaxPayload) \cup LongPayloads

InitFrame ==
    /\ pc = "send"
    /\ self = [sock |-> "RobotSocketV2"]
    /\ loc \in {[cmds |-> <<p, q>>, issued |-> <<>>, resps |-> <<>>] :
                    p \in Payloads, q \in Payloads}
    /\ wire = <<>> /\ rx = <<>>
    /\ peer_closed = FALSE
    /\ outcome = NoOutcome

\* _send_cmd(buf): one write of prefix + payload
SendCmd ==
    /\ pc = "send" /\ loc.cmds # <<>>
    /\ wire' = wire \o send_cmd_frame(Head(loc.cmds))
    /\ loc' = [loc EXCEPT !.issued = Append(@, Head(loc.cmds)),
                          !.cmds = Tail(@)]
    /\ UNCHANGED <<pc, self, rx, peer_closed, outcome>>

\* The bytes written are what a reader at the other end of the stream finds;
\* the writer then either closes the stream or leaves it open and silent.
Loopback ==
    /\ pc = "send" /\ loc.cmds = <<>>
    /\ rx' = wire
    /\ peer_closed' \in BOOLEAN
    /\ pc' = "recv"
    /\ UNCHANGED <<self, loc, wire, outcome>>

\* One call of get_resp on the reader's side
GetResp ==
    /\ pc = "recv"
    /\ LET r == get_resp(rx, peer_closed)
           more == r.kind = "ok" /\ Len(loc.resps) + 1 < Len(loc.issued)
       IN  /\ loc' = [loc EXCEPT !.resps =
                         Append(@, [kind |-> r.kind, data |-> r.data,
                                    used |-> Len(rx) - Len(r.rest)])]
           /\ rx' = r.rest
           /\ pc' = IF more THEN "recv" ELSE "done"
           /\ outcome' = IF more THEN outcome
                         ELSE IF r.kind = "ok" THEN [kind |-> "return"]
                         ELSE Raise(r.kind)
    /\ UNCHANGED <<self, wire, peer_closed>>

NextFrame == SendCmd \/ Loopback \/ GetResp

SpecFrame == InitFrame /\ [][NextFrame]_vars

\* C1 (first half): every frame _send_cmd writes starts with the two-byte
\* little-endian encoding of len(payload) + 2, followed by the payload.
C1_LengthField ==
    pc = "recv" /\ loc.resps = <<>> =>
        LET P == loc.issued[1]
        IN  /\ unpack_H(SubSeq(rx, 1, 2)) = Len(P) + 2
            /\ SubSeq(rx, 3, Len(P) + 2) = P

\* C1: the frame _send_cmd(P) writes is read back by get_resp as exactly P,
\* consuming len(P) + 2 bytes, so that the frame behind it is read from its
\* own length prefix and yields the second payload.
C1_RoundTrip ==
    \A i \in 1..Len(loc.resps) :
        /\ loc.resps[i].kind = "ok"
        /\ loc.resps[i].data = loc.issued[i]
        /\ loc.resps[i].used = Len(loc.issued[i]) + 2

----------------------------------------------------------------------------
(* RawModeBridge: quit_raw_mode *)

\* longest run of zero bytes the device sends in one piece
MaxZeros == 10

\* the number the scan compares sync with (v0002.py line 352)
SyncThreshold == 8

Zeros(n) == [i \in 1..n |-> 0]

\* number of zero bytes at the head of s
RECURSIVE LeadingZeros(_)
LeadingZeros(s) ==
    IF s = <<>> \/ Head(s) # 0 THEN 0 ELSE 1 + LeadingZeros(Tail(s))

\* A frame as get_resp reads it: the prefix holds the number of bytes that
\* follow it
device_frame(p) == pack_H(Len(p)) \o p

\* "error A B"
S_error_A_B == S_error_sp \o <<65, 32, 66>>

\* What follows the zero padding: nothing, a frame, or a nonzero byte and a
\* frame behind it
RawTails ==
    {<<>>, device_frame(S_ok), device_frame(S_error_A_B),
     <<7>> \o device_frame(S_ok), <<7>> \o device_frame(S_error_A_B)}

\* Streams the device sends after "quit": a run of zeros, possibly a stray
\* nonzero byte and a second run of zeros, then the tail
RawStreams ==
    {Zeros(a) \o m \o Zeros(b) \o t :
        a \in 0..MaxZeros, m \in {<<>>, <<1>>},
        b \in {0, 1, MaxZeros \div 2, MaxZeros}, t \in RawTails}

InitRaw ==
    /\ pc = "quit_raw_mode"
    /\ self = [sock |-> "RobotSocketV2"]
    /\ rx \in RawStreams
    /\ peer_closed \in BOOLEAN
    /\ loc = [input |-> rx, sync |-> 0, nread |-> 0, ended_at |-> 0]
    /\ wire = <<>>
    /\ outcome = NoOutcome

\* the test that lets a nonzero byte end the scan
sync_reached(sync) == sync > SyncThreshold

\* self.sock.send(b"quit"); sync = 0
QuitRawSend ==
    /\ pc = "quit_raw_mode"
    /\ wire' = wire \o S_quit
    /\ loc' = [loc EXCEPT !.sync = 0]
    /\ pc' = "scan"
    /\ UNCHANGED <<self, rx, peer_closed, outcome>>

\* One iteration of the while True loop: ret = ord(self.sock.recv(1))
QuitRawScan ==
    /\ pc = "scan"
    /\ IF rx = <<>>
       THEN \* recv(1) returns b"" at end of stream and ord(b"") raises;
            \* on a silent open stream the socket's timeout expires
            /\ outcome' = Raise(IF peer_closed THEN "TypeError"
                                               ELSE "socket.timeout")
            /\ pc' = "done"
            /\ UNCHANGED <<loc, rx>>
       ELSE LET ret == Head(rx)
            IN  /\ rx' = Tail(rx)
                /\ IF sync_reached(loc.sync)
                   THEN IF ret > 0
                        THEN /\ pc' = "get_resp"
                             /\ loc' = [loc EXCEPT !.nread = @ + 1,
                                                   !.ended_at = loc.nread + 1]
                        ELSE /\ pc' = pc
                             /\ loc' = [loc EXCEPT !.nread = @ + 1]
                   ELSE /\ pc' = pc
                        /\ loc' = [loc EXCEPT
                                     !.nread = @ + 1,
                                     !.sync = IF ret = 0 THEN @ + 1 ELSE @]
                /\ UNCHANGED outcome
    /\ UNCHANGED <<self, wire, peer_closed>>

\* return self.get_resp(), under @ok_or_error
QuitRawResp ==
    /\ pc = "get_resp"
    /\ LET r == get_resp(rx, peer_closed)
       IN  /\ rx' = r.rest
           /\ outcome' = IF r.kind = "ok" THEN ok_or_error(r.data, S_ok)
                                          ELSE Raise(r.kind)
    /\ pc' = "done"
    /\ UNCHANGED <<self, loc, wire, peer_closed>>

NextRaw == QuitRawSend \/ QuitRawScan \/ QuitRawResp

SpecRaw == InitRaw /\ [][NextRaw]_vars

\* C2: when the device sends n zero bytes and then a nonzero byte, the scan
\* of quit_raw_mode ends at that nonzero byte if n >= 8, and does not end
\* there if n < 8.
C2_ScanEndsAfterEightZeros ==
    LET n == LeadingZeros(loc.input)
    IN  n < Len(loc.input) =>
            /\ (n >= 8 /\ loc.nread > n => loc.ended_at = n + 1)
            /\ (n < 8 => loc.ended_at # n + 1)

----------------------------------------------------------------------------
(* UploadSession: upload_stream *)

\* the declared length and the source hold fewer than MaxChunks + 1 full reads
MaxChunks == 2

\* stream.read(4096) (v0002.py line 186)
ReadSize == 4096

\* "%i" % n
RECURSIVE decimal(_)
decimal(n) ==
    IF n < 10 THEN <<48 + n>> ELSE decimal(n \div 10) \o <<48 + (n % 10)>>

S_upload == <<117, 112, 108, 111, 97, 100>>
S_mimetype == <<116, 47, 103>>
S_upload_to == <<35>>

\* cmd = ("%s %s %i %s" % (cmd, mimetype, length, upload_to)).encode()
upload_cmd(cmd, mimetype, length, upload_to) ==
    cmd \o <<32>> \o mimetype \o <<32>> \o decimal(length) \o <<32>> \o upload_to

\* Sizes of a declared length or of a source: whole reads plus a remainder
Remainders == {0, 1, 1808}

UploadLengths == {k * ReadSize + r : k \in 0..MaxChunks, r \in Remainders}

SourceSizes == UploadLengths \cup {(MaxChunks + 1) * ReadSize}

\* What stream.read(4096) may return from a source holding n more bytes:
\* a file gives min(4096, n); other sources may give less, but give nothing
\* only at their end
read_sizes(n) ==
    IF n = 0 THEN {0} ELSE {Min(ReadSize, n)} \cup {m \in {1808} : m <= n}

\* What the loop does with a chunk of lbuf bytes: line 188
after_read_norobot(lbuf) == "send"

after_read(lbuf) == IF lbuf = 0 THEN "raise" ELSE "send"

RECURSIVE Sum(_)
Sum(s) == IF s = <<>> THEN 0 ELSE Head(s) + Sum(Tail(s))

NegotiationReplies == {S_continue, S_ok, S_error_A_B}

FinalReplies == {S_ok, S_error_A_B}

InitUpload ==
    /\ pc = "upload_stream"
    /\ self = [sock |-> "RobotSocketV2"]
    /\ rx \in {device_frame(n) \o device_frame(f) :
                 n \in NegotiationReplies, f \in FinalReplies}
    /\ peer_closed = FALSE
    /\ wire = <<>>
    /\ loc \in {[length |-> l, stream |-> s, progress_callback |-> cb,
                 sent |-> 0, ts |-> 0, lbuf |-> -1, now |-> 100,
                 chunks |-> <<>>, calls |-> <<>>, resps |-> 0,
                 upload_ret |-> <<>>, final_ret |-> <<>>] :
                    l \in UploadLengths, s \in SourceSizes, cb \in BOOLEAN}
    /\ outcome = NoOutcome

\* if upload_ret == "continue"
negotiated(upload_ret) == upload_ret = S_continue

\* upload_ret = self._make_cmd(cmd).decode("ascii", "ignore") and the test
\* of it; sent = 0; ts = 0
UploadNegotiate ==
    /\ pc = "upload_stream"
    /\ wire' = wire \o send_cmd_frame(
                   upload_cmd(S_upload, S_mimetype, loc.length, S_upload_to))
    /\ LET r == get_resp(rx, peer_closed)
           upload_ret == decode_ignore(r.data)
       IN  /\ rx' = r.rest
           /\ loc' = [loc EXCEPT !.resps = @ + 1, !.sent = 0, !.ts = 0,
                                 !.upload_ret = upload_ret]
           /\ IF r.kind # "ok"
              THEN pc' = "done" /\ outcome' = Raise(r.kind)
              ELSE IF ~negotiated(upload_ret)
              THEN /\ pc' = "done"
                   /\ outcome' = [kind |-> "raise", error |-> "RuntimeError",
                                  args |-> <<upload_ret>>]
              ELSE pc' = "loop" /\ outcome' = outcome
    /\ UNCHANGED <<self, peer_closed>>

\* One iteration of while sent < length; time() advances by less or by more
\* than 1.0 between iterations
UploadChunk ==
    /\ pc = "loop" /\ loc.sent < loc.length
    /\ \E lbuf \in read_sizes(loc.stream), d \in {0, 2} :
         IF after_read(lbuf) = "raise"
         THEN /\ loc' = [loc EXCEPT !.lbuf = lbuf]
              /\ pc' = "done"
              /\ outcome' = [kind |-> "raise", error |-> "RobotError",
                             args |-> <<"Upload file error">>]
         ELSE LET now == loc.now + d
                  fire == loc.progress_callback /\ now - loc.ts > 1
              IN  /\ loc' = [loc EXCEPT
                               !.lbuf = lbuf,
                               !.stream = @ - lbuf,
                               !.sent = @ + lbuf,
                               !.chunks = Append(@, lbuf),
                               !.now = now,
                               !.ts = IF fire THEN now ELSE @,
                               !.calls = IF fire THEN Append(@, loc.sent + lbuf)
                                                 ELSE @]
                  /\ UNCHANGED <<pc, outcome>>
    /\ UNCHANGED <<self, wire, rx, peer_closed>>

\* After the loop: the unconditional progress_callback call, the final
\* get_resp and the test of it
UploadFinish ==
    /\ pc = "loop" /\ ~(loc.sent < loc.length)
    /\ pc' = "done"
    /\ IF ~loc.progress_callback
       THEN \* progress_callback is None: calling it raises TypeError
            /\ outcome' = Raise("TypeError")
            /\ UNCHANGED <<loc, rx>>
       ELSE LET r == get_resp(rx, peer_closed)
            IN  /\ loc' = [loc EXCEPT !.calls = Append(@, loc.sent),
                                      !.resps = @ + 1,
                                      !.final_ret = r.data]
                /\ rx' = r.rest
                /\ outcome' = IF r.kind # "ok" THEN Raise(r.kind)
                              ELSE IF r.data # S_ok
                              THEN raise_error(decode_ignore(r.data))
                              ELSE [kind |-> "return"]
    /\ UNCHANGED <<self, wire, peer_closed>>

NextUpload == UploadNegotiate \/ UploadChunk \/ UploadFinish

SpecUpload == InitUpload /\ [][NextUpload]_vars

\* C3: when upload_stream has left its send loop, the values of `sent` it
\* passed to the progress callback never decrease, the last one equals the
\* declared length, and as many data bytes were forwarded as were declared.
C3_FinalSentIsLength ==
    pc = "done" /\ loc.resps = 2 =>
        /\ \A i \in 1..(Len(loc.calls) - 1) : loc.calls[i] <= loc.calls[i + 1]
        /\ loc.calls[Len(loc.calls)] = loc.length
        /\ Sum(loc.chunks) = loc.length

\* C10: once a read of the source has returned no bytes while sent < length,
\* upload_stream has raised the upload error: nothing was forwarded for that
\* read, the final response frame was not read, and the call did not return.
C10_EmptyReadAborts ==
    pc # "upload_stream" /\ loc.lbuf = 0 =>
        /\ pc = "done"
        /\ outcome = [kind |-> "raise", error |-> "RobotError",
                      args |-> <<"Upload file error">>]
        /\ loc.sent < loc.length
        /\ Sum(loc.chunks) = loc.sent
        /\ loc.resps = 1
        /\ Len(rx) > 0

\* An upload that forwarded a chunk and then found its source empty
C10_Witness ==
    /\ pc = "done" /\ loc.lbuf = 0 /\ loc.sent > 0 /\ loc.sent < loc.length
    /\ outcome.kind = "raise"

----------------------------------------------------------------------------
(* BinaryBlobCodec: recv_binary *)

\* the device sends at most MaxBlob bytes of a short blob before it stops
MaxBlob == 6

\* self.sock.recv(min(4096, left)) (v0002.py line 95)
RecvSize == 4096

S_binary == <<98, 105, 110, 97, 114, 121>>
S_mime == <<105, 47, 112>>

IsDigit(c) == c >= 48 /\ c <= 57

RECURSIVE digits_value(_)
digits_value(s) ==
    IF s = <<>> THEN 0 ELSE 10 * digits_value(SubSeq(s, 1, Len(s) - 1))
                            + (s[Len(s)] - 48)

\* int(ssize) for the texts of the model: an optional "-" and decimal digits;
\* anything else raises ValueError (valid = FALSE)
int_of(s) ==
    LET neg == s # <<>> /\ Head(s) = 45
        d == IF neg THEN Tail(s) ELSE s
    IN  IF d = <<>> \/ \E i \in 1..Len(d) : ~IsDigit(d[i])
        THEN [valid |-> FALSE, value |-> 0]
        ELSE [valid |-> TRUE,
              value |-> IF neg THEN 0 - digits_value(d) ELSE digits_value(d)]

\* Header lines handed to recv_binary: every caller has checked
\* startswith("binary ")
BinaryHeaders ==
    {S_binary \o <<32>> \o S_mime \o <<32>> \o decimal(n) :
        n \in {0, 3, 5, RecvSize + 1}}
    \cup {S_binary \o <<32>> \o S_mime,
          S_binary \o <<32>> \o S_mime \o <<32, 120>>,
          S_binary \o <<32>> \o S_mime \o <<32, 45, 49>>,
          S_binary \o <<32, 32>> \o S_mime \o <<32, 53>>}

\* Numbers of blob bytes the device sends before it stops
BlobSizes == 0..MaxBlob \cup {RecvSize + 1, RecvSize + 2}

\* What self.sock.recv(n) may return when avail bytes are waiting: all it can
\* take, or (a segment boundary) only the first half of it
recv_sizes(n, avail) ==
    LET k == Min(n, avail) IN {k, (k + 1) \div 2}

\* The loop's reaction to a chunk of k bytes read while left bytes were
\* missing: left -= buf.write(chunk)
left_after(left, k) == left - k

InitBinary ==
    /\ pc = "recv_binary"
    /\ self = [sock |-> "RobotSocketV2"]
    /\ rx \in {[i \in 1..n |-> 1 + (i % 2)] : n \in BlobSizes}
    /\ peer_closed \in BOOLEAN
    /\ wire = <<>>
    /\ loc \in {[binary_header |-> h, mimetype |-> <<>>, size |-> 0, left |-> 0,
                 buf |-> <<>>, last |-> -1] : h \in BinaryHeaders}
    /\ outcome = NoOutcome

\* Lines 88-93: split the header, assert, int(), left = size
RecvBinaryParse ==
    /\ pc = "recv_binary"
    /\ LET parts == split(loc.binary_header, 32)
       IN  IF Len(parts) # 3
           THEN pc' = "done" /\ outcome' = Raise("ValueError") /\ loc' = loc
           ELSE IF parts[1] # S_binary
           THEN pc' = "done" /\ outcome' = Raise("AssertionError") /\ loc' = loc
           ELSE IF ~int_of(parts[3]).valid
           THEN pc' = "done" /\ outcome' = Raise("ValueError") /\ loc' = loc
           ELSE /\ pc' = "loop"
                /\ loc' = [loc EXCEPT !.mimetype = parts[2],
                                      !.size = int_of(parts[3]).value,
                                      !.left = int_of(parts[3]).value]
                /\ outcome' = outcome
    /\ UNCHANGED <<self, wire, rx, peer_closed>>

\* One iteration of while left > 0
RecvBinaryLoop ==
    /\ pc = "loop" /\ loc.left > 0
    /\ IF rx = <<>> /\ ~peer_closed
       THEN \* nothing arrives on an open stream: the socket's timeout expires
            /\ pc' = "done" /\ outcome' = Raise("socket.timeout")
            /\ UNCHANGED <<loc, rx>>
       ELSE \E k \in recv_sizes(Min(RecvSize, loc.left), Len(rx)) :
              /\ loc' = [loc EXCEPT !.buf = @ \o Take(rx, k),
                                    !.left = left_after(@, k),
                                    !.last = k]
              /\ rx' = Drop(rx, k)
              /\ UNCHANGED <<pc, outcome>>
    /\ UNCHANGED <<self, wire, peer_closed>>

\* return (mimetype, buf.getvalue())
RecvBinaryReturn ==
    /\ pc = "loop" /\ ~(loc.left > 0)
    /\ pc' = "done"
    /\ outcome' = [kind |-> "return", value |-> <<loc.mimetype, loc.buf>>]
    /\ UNCHANGED <<self, loc, wire, rx, peer_closed>>

NextBinary == RecvBinaryParse \/ RecvBinaryLoop \/ RecvBinaryReturn

SpecBinary == InitBinary /\ [][NextBinary]_vars

\* C5: when the stream closes before the declared size has arrived (a recv
\* returned no bytes while bytes were still missing), recv_binary has ended
\* with an error; and it never returns fewer bytes than the header declared.
C5_ShortBlobIsAnError ==
    /\ (pc = "loop" \/ pc = "done") /\ loc.last = 0 /\ loc.left > 0 =>
           pc = "done" /\ outcome.kind = "raise"
    /\ outcome.kind = "return" => Len(outcome.value[2]) >= loc.size

----------------------------------------------------------------------------
(* SessionHandshake: FluxRobotV0002.__init__ *)

\* RSA keys are records [id, size]: size is the modulus size in bytes.
\* Key 0 stands for None (no key).
RsaKeys == {[id |-> 1, size |-> 64], [id |-> 2, size |-> 80]}

NoKey == [id |-> 0, size |-> 0]

\* E.rsa_size(rsakey)
E_rsa_size(key) == key.size

\* E.get_access_id(rsakey, binary=True): 20 bytes that identify the key
E_get_access_id(key) == [i \in 1..20 |-> key.id]

\* E.sign(key, message): a block of the key's size that names the signer and
\* depends on the message
E_sign(key, message) ==
    [i \in 1..key.size |->
        IF i = 1 THEN key.id
        ELSE IF i = 2 THEN Len(message) % 256
        ELSE IF i - 2 <= Len(message) THEN message[i - 2] ELSE 0]

\* verification of a signature against a public key
E_verify(key, message, signature) == signature = E_sign(key, message)

\* E.rsa_encrypt for key: a block of the key's size holding the recipient,
\* the length of the plaintext and the plaintext
E_rsa_encrypt(key, plain) ==
    [i \in 1..key.size |->
        IF i = 1 THEN key.id
        ELSE IF i = 2 THEN Len(plain)
        ELSE IF i - 2 <= Len(plain) THEN plain[i - 2] ELSE 0]

\* E.rsa_decrypt(rsakey, block): the plaintext, or an error when the block is
\* short or was made for another key
E_rsa_decrypt(key, block) ==
    IF Len(block) # key.size \/ block[1] # key.id
    THEN [valid |-> FALSE, plain |-> <<>>]
    ELSE [valid |-> TRUE, plain |-> SubSeq(block, 3, 2 + block[2])]

\* buf[a:] and buf[a:-b] of Python, for 0 <= a and 0 < b
slice_last(buf, b) == SubSeq(buf, IF Len(buf) > b THEN Len(buf) - b + 1 ELSE 1,
                             Len(buf))

slice_mid(buf, a, b) == SubSeq(buf, a + 1, Len(buf) - b)

\* bytes.rstrip(b"\x00")
RECURSIVE rstrip0(_)
rstrip0(s) ==
    IF s # <<>> /\ s[Len(s)] = 0 THEN rstrip0(SubSeq(s, 1, Len(s) - 1)) ELSE s

S_FLUX0002 == <<70, 76, 85, 88, 48, 48, 48, 50>>
S_OK == <<79, 75>>
S_OKAY == <<79, 75, 65, 89>>
S_AUTH_ERROR == <<65, 85, 84, 72, 95, 69, 82, 82, 79, 82>>

\* the status field, NUL-padded to 16 bytes
status_field(text) == text \o [i \in 1..(16 - Len(text)) |-> 0]

\* the 128 challenge bytes of the device
Challenge(seed) == [i \in 1..128 |-> (seed + i) % 256]

\* the 4096-byte initial frame: banner, signature, challenge
initial_frame(signer, seed) ==
    S_FLUX0002 \o E_sign(signer, Challenge(seed)) \o Challenge(seed)

\* The secret the device encrypts: 32 key bytes, 16 IV bytes
Secret(seed) == [i \in 1..48 |-> (seed * i) % 256]

\* Lines 43-46: what __init__ does with server_key is to log one of two
\* messages; the signature is not looked at
server_key_log(server_key) ==
    IF server_key # NoKey THEN "Warning: server key checking not implement!"
                          ELSE "Warning: can not validate remote"

InitHandshake ==
    /\ pc = "__init__"
    /\ self = [sock |-> NoKey]
    /\ wire = <<>>
    /\ peer_closed \in BOOLEAN
    /\ \E server_key \in RsaKeys \cup {NoKey}, signer \in RsaKeys,
          rsakey \in RsaKeys, recipient \in RsaKeys, seed \in {3, 5},
          status \in {S_OK, S_OKAY, S_AUTH_ERROR, <<>>} :
         /\ rx = initial_frame(signer, seed)
         /\ loc = [server_key |-> server_key, rsakey |-> rsakey,
                   sign |-> <<>>, randbytes |-> <<>>, status |-> <<>>,
                   log |-> "",
                   device |-> status_field(status)
                              \o E_rsa_encrypt(recipient, Secret(seed))]
    /\ outcome = NoOutcome

\* Lines 39-46: read the initial frame, cut it, look at server_key
HandshakeBanner ==
    /\ pc = "__init__"
    /\ LET buf == Take(rx, 4096)
           sign == slice_mid(buf, 8, 128)
           randbytes == slice_last(buf, 128)
       IN  /\ rx' = Drop(rx, 4096)
           /\ loc' = [loc EXCEPT !.sign = sign, !.randbytes = randbytes,
                                 !.log = server_key_log(loc.server_key)]
    /\ pc' = "reply"
    /\ UNCHANGED <<self, wire, peer_closed, outcome>>

\* Lines 48-53: send identity and signed challenge; the device answers with
\* its status and, behind it, the encrypted secret
HandshakeReply ==
    /\ pc = "reply"
    /\ wire' = wire \o E_get_access_id(loc.rsakey)
                    \o E_sign(loc.rsakey, loc.randbytes)
    /\ rx' = rx \o loc.device
    /\ pc' = "status"
    /\ UNCHANGED <<self, loc, peer_closed, outcome>>

\* if status == "OK", loosened to a test of the first two characters
status_ok_prefix(status) == StartsWith(status, S_OK)

\* if status == "OK"
status_ok(status) == status = S_OK

\* aes_init[:32] and aes_init[32:48], the key and the IV given to RobotSocketV2
aes_key(aes_init) == SubSeq(aes_init, 1, 32)
aes_iv(aes_init) == SubSeq(aes_init, 33, 48)

\* Lines 54-61: read the status; on "OK" read and decrypt the secret and
\* build the encrypted socket
HandshakeStatus ==
    /\ pc = "status"
    /\ pc' = "done"
    /\ LET status == rstrip0(recv_waitall(rx, 16))
           after == Drop(rx, 16)
           aes_enc_init == recv_waitall(after, E_rsa_size(loc.rsakey))
           aes_init == E_rsa_decrypt(loc.rsakey, aes_enc_init)
       IN  /\ loc' = [loc EXCEPT !.status = status]
           /\ IF status_ok(status)
              THEN /\ rx' = Drop(after, E_rsa_size(loc.rsakey))
                   /\ IF aes_init.valid
                      THEN /\ self' = [sock |->
                                        [key |-> aes_key(aes_init.plain),
                                         iv |-> aes_iv(aes_init.plain)]]
                           /\ outcome' = [kind |-> "return"]
                      ELSE /\ self' = self
                           /\ outcome' = Raise("rsa_decrypt")
              ELSE /\ rx' = after
                   /\ self' = self
                   /\ outcome' = [kind |-> "raise", error |-> "RuntimeError",
                                  args |-> <<"Handshake failed: ", status>>]
    /\ UNCHANGED <<wire, peer_closed>>

\* Commands sent through the session once it stands, and the device's answers
SessionCmds == {S_quit, <<65>>}
SessionAnswers == {S_ok, S_error_A_B}

\* After construction: one _make_cmd(buf) through self.sock, that is
\* _send_cmd(buf) and get_resp(); self.sock is used, not assigned
SessionMakeCmd ==
    /\ pc = "done" /\ outcome.kind = "return"
    /\ \E buf \in SessionCmds, answer \in SessionAnswers :
         LET r == get_resp(rx \o device_frame(answer), peer_closed)
         IN  /\ wire' = wire \o send_cmd_frame(buf)
             /\ rx' = r.rest
             /\ outcome' = IF r.kind = "ok"
                           THEN [kind |-> "return", value |-> r.data]
                           ELSE Raise(r.kind)
    /\ pc' = "session"
    /\ UNCHANGED <<self, loc, peer_closed>>

\* close(): self.sock.close()
SessionClose ==
    /\ pc = "session"
    /\ pc' = "closed"
    /\ peer_closed' = TRUE
    /\ UNCHANGED <<self, loc, wire, rx, outcome>>

NextHandshake ==
    \/ HandshakeBanner \/ HandshakeReply \/ HandshakeStatus
    \/ SessionMakeCmd \/ SessionClose

SpecHandshake == InitHandshake /\ [][NextHandshake]_vars

\* C4: when server_key was given and the signature of the initial frame does
\* not verify against it, the handshake fails: no encrypted socket is ever
\* built and the constructor ends by raising.
C4_BadSignatureFailsHandshake ==
    loc.server_key # NoKey /\ pc # "__init__"
    /\ ~E_verify(loc.server_key, loc.randbytes, loc.sign) =>
        /\ self.sock = NoKey
        /\ (pc = "done" => outcome.kind = "raise")

----------------------------------------------------------------------------
(* CommandChannel: the command operations and their response grammars *)

\* longest text behind "error " that is enumerated character by character
MaxErrTail == 3

S_position == <<112, 111, 115, 105, 116, 105, 111, 110>>
S_report == <<114, 101, 112, 111, 114, 116>>
S_md5_sp == <<109, 100, 53, 32>>
S_ok_sp == <<111, 107, 32>>
S_binary_sp == <<98, 105, 110, 97, 114, 121, 32>>
S_ls_sp == <<108, 115, 32>>
S_fileinfo_sp == <<102, 105, 108, 101, 105, 110, 102, 111, 32>>
S_oneshot == <<111, 110, 101, 115, 104, 111, 116>>
S_scanimages == <<115, 99, 97, 110, 105, 109, 97, 103, 101, 115>>
S_eadj == <<101, 97, 100, 106>>
S_raw == <<114, 97, 119>>
S_entry_path == <<83, 68, 32, 97>>
S_PROTOCOL_ERROR_NOT_OK == <<101, 114, 114, 111, 114, 32, 80, 82, 79, 84, 79, 67, 79, 76, 95, 69, 82, 82, 79, 82, 32, 78, 79, 84, 95, 79, 75>>

\* The commands that are _make_cmd under @ok_or_error: select, mkdir, rmdir,
\* cp, rm, start, scan, quit, kick, pause, abort, resume, scanlaser,
\* set steplen, scan_next, scan_forword, maintain, home, reset_mb, set
OkOrErrorCmds ==
    {<<115, 101, 108, 101, 99, 116, 32, 83, 68, 32, 97>>, <<109, 107, 100, 105, 114, 32, 83, 68, 32, 97>>, <<114, 109, 100, 105, 114, 32, 83, 68, 32, 97>>, <<114, 109, 32, 83, 68, 32, 97>>, <<115, 116, 97, 114, 116>>, <<115, 99, 97, 110>>, <<113, 117, 105, 116>>,
     <<107, 105, 99, 107>>, <<112, 97, 117, 115, 101>>, <<97, 98, 111, 114, 116>>, <<114, 101, 115, 117, 109, 101>>, <<115, 99, 97, 110, 108, 97, 115, 101, 114, 32, 108, 114>>, <<115, 99, 97, 110, 95, 110, 101, 120, 116>>,
     <<115, 99, 97, 110, 95, 102, 111, 114, 119, 111, 114, 100>>, <<109, 97, 105, 110, 116, 97, 105, 110>>, <<104, 111, 109, 101>>, <<114, 101, 115, 101, 116, 95, 109, 98>>, <<115, 101, 116, 32, 107, 32, 118>>}

\* Texts that begin with "error ": the tail is any text of tab, space, "A"
\* and "B"
ErrTexts == {S_error_sp \o t : t \in SeqsUpTo({9, 32, 65, 66}, MaxErrTail)}

\* A binary header and the one blob byte it announces
BinaryMessage == device_frame(<<98, 105, 110, 97, 114, 121, 32, 105, 47, 112, 32, 49>>) \o <<7>>

\* What the device may send first, second and third in answer to a command
FirstMessages ==
    {device_frame(t) : t \in ErrTexts}
    \cup {device_frame(t) : t \in {S_ok, S_continue, <<111, 107, 32, 107, 61, 118>>, <<109, 100, 53, 32, 97, 98>>,
                                   S_error, <<128>> \o S_ok, <<88>>}}
    \cup {BinaryMessage}

SecondMessages ==
    {<<>>, BinaryMessage}
    \cup {device_frame(t) : t \in {S_ok, S_error_A_B, <<68, 65>> \o <<0>> \o <<70, 98>> \o <<0>> \o <<120>>,
                                   <<111, 107, 32, 107, 61, 118>> \o <<0>> \o <<122>>}}

ThirdMessages == {<<>>} \cup {device_frame(t) : t \in {S_ok, S_error_A_B, <<111, 107, 32, 107, 61, 118>>}}

\* recv_binary as one call: the header is split and checked, then size bytes
\* are read; when the stream ends first the loop never ends (kind "hang")
recv_binary(binary_header, stream, closed) ==
    LET parts == split(binary_header, 32)
        size == int_of(parts[3]).value
    IN  IF Len(parts) # 3
        THEN [kind |-> "ValueError", value |-> <<>>, rest |-> stream]
        ELSE IF parts[1] # S_binary
        THEN [kind |-> "AssertionError", value |-> <<>>, rest |-> stream]
        ELSE IF ~int_of(parts[3]).valid
        THEN [kind |-> "ValueError", value |-> <<>>, rest |-> stream]
        ELSE IF size <= Len(stream)
        THEN [kind |-> "ok", value |-> <<parts[2], Take(stream, size)>>,
              rest |-> Drop(stream, size)]
        ELSE [kind |-> IF closed THEN "hang" ELSE "socket.timeout",
              value |-> <<>>, rest |-> <<>>]

\* RuntimeError(*args)
RuntimeError(args) == [kind |-> "raise", error |-> "RuntimeError", args |-> args]

Return(v) == [kind |-> "return", value |-> v]

\* position: lines 100-104
position_result(bret) ==
    LET ret == decode_ignore(bret)
    IN  IF StartsWith(ret, S_error_sp) THEN RuntimeError(Tail(split(ret, 32)))
        ELSE Return(ret)

\* md5: lines 225-229
md5_result(bresp) ==
    LET resp == decode_ignore(bresp)
    IN  IF StartsWith(resp, S_md5_sp) THEN Return(Drop(resp, 4))
        ELSE raise_error(resp)

\* report_play: line 257
report_play_result(bret) == Return(decode_ignore(bret))

\* begin_upload: lines 217-221
begin_upload_result(bret) ==
    LET upload_ret == decode_ignore(bret)
    IN  IF upload_ret = S_continue THEN Return("self.sock")
        ELSE RuntimeError(<<upload_ret>>)

\* raw_mode: lines 341-344
raw_mode_result(ret) ==
    IF ret = S_continue THEN Return("self.sock")
    ELSE raise_error(decode_ignore(ret))

\* list_files, line 112: what follows the trailing frame
list_trailing_unchecked(last_resp) == "yield"

list_trailing(last_resp) == IF last_resp # S_ok THEN "raise" ELSE "yield"

\* dict(pair.split("=", 1) for pair in text.split("\x00")): ValueError when a
\* pair holds no "="
fileinfo_dict(text) ==
    LET pairs == split(text, 0)
    IN  IF \E i \in 1..Len(pairs) : find(pairs[i], 61) = 0
        THEN [valid |-> FALSE, value |-> <<>>]
        ELSE [valid |-> TRUE,
              value |-> [i \in 1..Len(pairs) |->
                           <<SubSeq(pairs[i], 1, find(pairs[i], 61) - 1),
                             SubSeq(pairs[i], find(pairs[i], 61) + 1,
                                    Len(pairs[i]))>>]]

InitCmd ==
    /\ pc = "idle"
    /\ self = [sock |-> "RobotSocketV2"]
    /\ rx \in {a \o b \o c : a \in FirstMessages, b \in SecondMessages,
                            c \in ThirdMessages}
    /\ peer_closed \in BOOLEAN
    /\ wire = <<>>
    /\ loc = [op |-> "", read |-> <<>>, calls |-> <<>>, yielded |-> <<>>,
              nodes |-> <<>>, images |-> <<>>, nav |-> <<>>]
    /\ outcome = NoOutcome

ok_result(bret) == ok_or_error(bret, S_ok)

\* What each one-frame operation makes of the response bytes
one_frame_result(name, bret) ==
    CASE name = "position" -> position_result(bret)
      [] name = "ok_or_error" -> ok_result(bret)
      [] name = "md5" -> md5_result(bret)
      [] name = "report_play" -> report_play_result(bret)
      [] name = "begin_upload" -> begin_upload_result(bret)
      [] name = "raw_mode" -> raw_mode_result(bret)

\* A command that is one _make_cmd and one look at the response
OneFrameCall(name, cmd) ==
    /\ pc = "idle"
    /\ wire' = wire \o send_cmd_frame(cmd)
    /\ LET r == get_resp(rx, peer_closed)
       IN  /\ rx' = r.rest
           /\ loc' = [loc EXCEPT !.op = name,
                                 !.read = IF r.kind = "ok" THEN Append(@, r.data)
                                                           ELSE @]
           /\ outcome' = IF r.kind = "ok" THEN one_frame_result(name, r.data)
                                          ELSE Raise(r.kind)
    /\ pc' = "done"
    /\ UNCHANGED <<self, peer_closed>>

Position == OneFrameCall("position", S_position)

OkOrErrorCommand ==
    \E cmd \in OkOrErrorCmds : OneFrameCall("ok_or_error", cmd)

Md5 == OneFrameCall("md5", S_md5_sp \o <<97>>)

ReportPlay == OneFrameCall("report_play", S_report)

BeginUpload ==
    OneFrameCall("begin_upload",
                 upload_cmd(S_upload, <<116, 101, 120, 116, 47, 103, 99, 111, 100, 101>>, 1, S_upload_to))

RawMode == OneFrameCall("raw_mode", S_raw)

\* list_files up to the test of the first response: lines 107-109, 124
ListFiles ==
    /\ pc = "idle"
    /\ wire' = wire \o send_cmd_frame(S_ls_sp \o S_entry_path)
    /\ LET r == get_resp(rx, peer_closed)
           resp == decode_ignore(r.data)
       IN  /\ rx' = r.rest
           /\ loc' = [loc EXCEPT !.op = "list_files",
                                 !.read = IF r.kind = "ok" THEN Append(@, r.data)
                                                           ELSE @]
           /\ IF r.kind # "ok" THEN pc' = "done" /\ outcome' = Raise(r.kind)
              ELSE IF resp = S_continue THEN pc' = "ls_files" /\ outcome' = outcome
              ELSE pc' = "done" /\ outcome' = raise_error(resp)
    /\ UNCHANGED <<self, peer_closed>>

\* lines 110-113: the entry list, the trailing frame and the test of it
ListFilesFrames ==
    /\ pc = "ls_files"
    /\ LET r1 == get_resp(rx, peer_closed)
           files == decode_ignore(r1.data)
           r2 == get_resp(r1.rest, peer_closed)
           last_resp == decode_ignore(r2.data)
       IN  IF r1.kind # "ok"
           THEN /\ rx' = r1.rest /\ loc' = loc
                /\ pc' = "done" /\ outcome' = Raise(r1.kind)
           ELSE IF r2.kind # "ok"
           THEN /\ rx' = r2.rest
                /\ loc' = [loc EXCEPT !.read = Append(@, r1.data)]
                /\ pc' = "done" /\ outcome' = Raise(r2.kind)
           ELSE /\ rx' = r2.rest
                /\ IF list_trailing(last_resp) = "raise"
                   THEN /\ loc' = [loc EXCEPT
                                     !.read = Append(Append(@, r1.data), r2.data)]
                        /\ pc' = "done"
                        /\ outcome' = raise_error(S_PROTOCOL_ERROR_NOT_OK)
                   ELSE /\ loc' = [loc EXCEPT
                                     !.read = Append(Append(@, r1.data), r2.data),
                                     !.nodes = split(files, 0)]
                        /\ pc' = "ls_yield"
                        /\ outcome' = outcome
    /\ UNCHANGED <<self, wire, peer_closed>>

\* lines 115-122: one node of the for loop, and the end of the generator
ListFilesYield ==
    /\ pc = "ls_yield"
    /\ IF loc.nodes = <<>>
       THEN /\ pc' = "done" /\ outcome' = Return(<<>>) /\ loc' = loc
       ELSE LET node == Head(loc.nodes)
            IN  /\ loc' = [loc EXCEPT
                             !.nodes = Tail(@),
                             !.yielded =
                                 IF StartsWith(node, <<68>>)
                                 THEN Append(@, <<TRUE, Tail(node)>>)
                                 ELSE IF StartsWith(node, <<70>>)
                                 THEN Append(@, <<FALSE, Tail(node)>>)
                                 ELSE @]
                /\ UNCHANGED <<pc, outcome>>
    /\ UNCHANGED <<self, wire, rx, peer_closed>>

\* fileinfo: lines 131-144
Fileinfo ==
    /\ pc = "idle"
    /\ wire' = wire \o send_cmd_frame(S_fileinfo_sp \o S_entry_path)
    /\ pc' = "done"
    /\ LET r1 == get_resp(rx, peer_closed)
           resp1 == decode_ignore(r1.data)
           isbin == r1.kind = "ok" /\ StartsWith(resp1, S_binary_sp)
           blob == recv_binary(resp1, r1.rest, peer_closed)
           r2 == get_resp(blob.rest, peer_closed)
           r == IF isbin THEN r2 ELSE r1
           resp == decode_ignore(r.data)
           info0 == fileinfo_dict(Drop(resp, 3))
       IN  IF r1.kind # "ok"
           THEN /\ rx' = r1.rest /\ outcome' = Raise(r1.kind)
                /\ loc' = [loc EXCEPT !.op = "fileinfo"]
           ELSE IF isbin /\ blob.kind # "ok"
           THEN /\ rx' = blob.rest
                /\ outcome' = IF blob.kind = "hang" THEN [kind |-> "hang"]
                                                    ELSE Raise(blob.kind)
                /\ loc' = [loc EXCEPT !.op = "fileinfo",
                                      !.read = Append(@, r1.data)]
           ELSE IF r.kind # "ok"
           THEN /\ rx' = r.rest /\ outcome' = Raise(r.kind)
                /\ loc' = [loc EXCEPT !.op = "fileinfo",
                                      !.read = Append(@, r1.data)]
           ELSE /\ rx' = r.rest
                /\ loc' = [loc EXCEPT
                             !.op = "fileinfo",
                             !.read = IF isbin THEN Append(Append(@, r1.data), r2.data)
                                               ELSE Append(@, r1.data)]
                /\ outcome' =
                       IF StartsWith(resp, S_ok_sp)
                       THEN IF info0.valid
                            THEN Return(<<info0.value,
                                          IF isbin THEN blob.value ELSE <<>>>>)
                            ELSE Raise("ValueError")
                       ELSE raise_error(resp)
    /\ UNCHANGED <<self, peer_closed>>

\* oneshot and scanimages: the command, images = []
Oneshot ==
    /\ pc = "idle"
    /\ wire' = wire \o send_cmd_frame(S_oneshot)
    /\ loc' = [loc EXCEPT !.op = "oneshot", !.images = <<>>]
    /\ pc' = "images"
    /\ UNCHANGED <<self, rx, peer_closed, outcome>>

Scanimages ==
    /\ pc = "idle"
    /\ wire' = wire \o send_cmd_frame(S_scanimages)
    /\ loc' = [loc EXCEPT !.op = "scanimages", !.images = <<>>]
    /\ pc' = "images"
    /\ UNCHANGED <<self, rx, peer_closed, outcome>>

\* One iteration of the while True loop of oneshot and of scanimages
ImagesLoop ==
    /\ pc = "images"
    /\ LET r == get_resp(rx, peer_closed)
           resp == decode_ignore(r.data)
           blob == recv_binary(resp, r.rest, peer_closed)
       IN  IF r.kind # "ok"
           THEN /\ rx' = r.rest /\ loc' = loc
                /\ pc' = "done" /\ outcome' = Raise(r.kind)
           ELSE IF StartsWith(resp, S_binary_sp)
           THEN /\ rx' = blob.rest
                /\ IF blob.kind = "ok"
                   THEN /\ loc' = [loc EXCEPT !.read = Append(@, r.data),
                                              !.images = Append(@, blob.value)]
                        /\ UNCHANGED <<pc, outcome>>
                   ELSE /\ loc' = [loc EXCEPT !.read = Append(@, r.data)]
                        /\ pc' = "done"
                        /\ outcome' = IF blob.kind = "hang" THEN [kind |-> "hang"]
                                                            ELSE Raise(blob.kind)
           ELSE /\ rx' = r.rest
                /\ loc' = [loc EXCEPT !.read = Append(@, r.data)]
                /\ pc' = "done"
                /\ outcome' = IF resp = S_ok THEN Return(loc.images)
                                             ELSE RuntimeError(<<resp>>)
    /\ UNCHANGED <<self, wire, peer_closed>>

\* maintain_eadj: lines 330-332, 336-337
MaintainEadj ==
    /\ pc = "idle"
    /\ wire' = wire \o send_cmd_frame(S_eadj)
    /\ LET r == get_resp(rx, peer_closed)
       IN  /\ rx' = r.rest
           /\ IF r.kind # "ok"
              THEN /\ loc' = [loc EXCEPT !.op = "maintain_eadj"]
                   /\ pc' = "done" /\ outcome' = Raise(r.kind)
              ELSE IF r.data = S_continue
              THEN /\ loc' = [loc EXCEPT !.op = "maintain_eadj",
                                         !.read = Append(@, r.data),
                                         !.nav = S_continue]
                   /\ pc' = "eadj" /\ outcome' = outcome
              ELSE /\ loc' = [loc EXCEPT !.op = "maintain_eadj",
                                         !.read = Append(@, r.data)]
                   /\ pc' = "done"
                   /\ outcome' = raise_error(decode_ignore(r.data))
    /\ UNCHANGED <<self, peer_closed>>

\* One test of while nav != "ok" and, inside the loop, lines 334-335
EadjLoop ==
    /\ pc = "eadj"
    /\ IF loc.nav = S_ok
       THEN /\ pc' = "done" /\ outcome' = Return(<<>>)
            /\ UNCHANGED <<loc, rx>>
       ELSE LET r == get_resp(rx, peer_closed)
            IN  /\ rx' = r.rest
                /\ IF r.kind # "ok"
                   THEN /\ loc' = [loc EXCEPT !.calls = Append(@, loc.nav)]
                        /\ pc' = "done" /\ outcome' = Raise(r.kind)
                   ELSE /\ loc' = [loc EXCEPT !.calls = Append(@, loc.nav),
                                              !.read = Append(@, r.data),
                                              !.nav = decode_ignore(r.data)]
                        /\ UNCHANGED <<pc, outcome>>
    /\ UNCHANGED <<self, wire, peer_closed>>

NextCmd ==
    \/ Position \/ OkOrErrorCommand \/ Md5 \/ ReportPlay \/ BeginUpload
    \/ RawMode \/ ListFiles \/ ListFilesFrames \/ ListFilesYield \/ Fileinfo
    \/ Oneshot \/ Scanimages \/ ImagesLoop \/ MaintainEadj \/ EadjLoop

SpecCmd == InitCmd /\ [][NextCmd]_vars


\* Python's whitespace characters among the bytes of the model
IsSpace(c) == c \in {9, 10, 11, 12, 13, 32}

\* str.split() with no separator: the maximal runs of non-whitespace
RECURSIVE ws_tokens(_)
ws_tokens(s) ==
    IF s = <<>> THEN <<>>
    ELSE IF IsSpace(Head(s)) THEN ws_tokens(Tail(s))
    ELSE LET rest == ws_tokens(Tail(s))
         IN  IF Len(s) > 1 /\ ~IsSpace(s[2])
             THEN <<(<<Head(s)>> \o Head(rest))>> \o Tail(rest)
             ELSE <<(<<Head(s)>>)>> \o rest

\* sep.join(pieces)
RECURSIVE join(_, _)
join(pieces, sep) ==
    IF pieces = <<>> THEN <<>>
    ELSE IF Len(pieces) = 1 THEN pieces[1]
    ELSE pieces[1] \o <<sep>> \o join(Tail(pieces), sep)

\* The operations that hand the text of an unexpected first response to
\* raise_error
RaiseErrorOps == {"ok_or_error", "md5", "raw_mode"}

\* A finished raise_error operation whose response text began with "error "
ErrorAnswered ==
    /\ pc = "done" /\ loc.op \in RaiseErrorOps /\ Len(loc.read) = 1
    /\ StartsWith(decode_ignore(loc.read[1]), S_error_sp)

\* C7, tokens read as whitespace-separated: for a response text beginning
\* "error " (and holding a token behind it), the failure raised carries the
\* whitespace-separated tokens behind the prefix: the first is the code, the
\* others the arguments, in order.
C7_WhitespaceTokens ==
    ErrorAnswered /\ ws_tokens(Drop(decode_ignore(loc.read[1]), 6)) # <<>> =>
        /\ outcome.kind = "raise"
        /\ outcome.args = ws_tokens(Drop(decode_ignore(loc.read[1]), 6))

\* C7, tokens read as cut at single spaces: for a response text beginning
\* "error ", the failure raised carries the pieces of the text behind the prefix cut at every single space
\* character, in order (the first is the code): no piece holds a space, and
\* the pieces joined by single spaces are the text behind the prefix, so
\* adjacent spaces give empty pieces and tabs separate nothing.
C7_SpaceSeparatedPieces ==
    ErrorAnswered =>
        /\ outcome.kind = "raise"
        /\ outcome.error = "RuntimeError"
        /\ Len(outcome.args) >= 1
        /\ \A i \in 1..Len(outcome.args) :
              \A j \in 1..Len(outcome.args[i]) : outcome.args[i][j] # 32
        /\ join(outcome.args, 32) = Drop(decode_ignore(loc.read[1]), 6)

\* "error A B" answered to an ok_or_error command: code A, argument B
C7_Witness ==
    /\ ErrorAnswered /\ loc.op = "ok_or_error"
    /\ loc.read[1] = S_error_A_B
    /\ outcome.args = <<(<<65>>), (<<66>>)>>

\* C8: whenever an operation has read a response frame whose text begins
\* "error ", it ends by raising a failure whose arguments are the device's
\* code and arguments, one per token; the text is not returned, not passed
\* to a callback and not raised as one fused string.
C8_ErrorFramesRaiseStructured ==
    \A i \in 1..Len(loc.read) :
        LET text == decode_ignore(loc.read[i])
        IN  StartsWith(text, S_error_sp) =>
                /\ pc = "done"
                /\ outcome.kind = "raise"
                /\ outcome.args = Tail(split(text, 32))
                /\ \A k \in 1..Len(loc.calls) : loc.calls[k] # text

\* C9: list_files yields entries only after it has read a trailing frame
\* that is "ok"; when the trailing frame is anything else it has raised and
\* has yielded no entry.
C9_NoEntriesUnlessTrailingOk ==
    loc.op = "list_files" =>
        /\ loc.yielded # <<>> =>
               Len(loc.read) = 3 /\ decode_ignore(loc.read[3]) = S_ok
        /\ Len(loc.read) = 3 /\ decode_ignore(loc.read[3]) # S_ok =>
               pc = "done" /\ outcome.kind = "raise" /\ loc.yielded = <<>>

\* "continue", a list holding a directory and a file, then "error A B"
C9_Witness ==
    /\ loc.op = "list_files" /\ pc = "done" /\ Len(loc.read) = 3
    /\ loc.read[1] = S_continue
    /\ StartsWith(loc.read[2], <<68>>)
    /\ loc.read[3] = S_error_A_B
    /\ outcome.kind = "raise" /\ loc.yielded = <<>>

----------------------------------------------------------------------------
(* DiscoveryClient: make_request and _parse_response (upnp/base.py) *)

\* datagrams that arrive while one make_request waits
MaxDatagrams == 3

\* misc.CODE_RSA_KEY, misc.CODE_RESPONSE_RSA_KEY and the codes of another
\* request and its response
CODE_RSA_KEY == 4
CODE_RESPONSE_RSA_KEY == 5
CODE_OTHER == 6
CODE_RESPONSE_OTHER == 7

S_FLUX == <<70, 76, 85, 88>>

\* self.serial.bytes: 16 bytes
SerialBytes == [i \in 1..16 |-> 16 + i]

\* json.loads(text) for the texts of the model: a string in double quotes or
\* a decimal number; anything else raises ValueError
json_loads(text) ==
    IF Len(text) >= 2 /\ text[1] = 34 /\ text[Len(text)] = 34
       /\ \A i \in 2..(Len(text) - 1) : text[i] # 34
    THEN [valid |-> TRUE, type |-> "str", value |-> SubSeq(text, 2, Len(text) - 1)]
    ELSE IF text # <<>> /\ \A i \in 1..Len(text) : IsDigit(text[i])
    THEN [valid |-> TRUE, type |-> "int", value |-> digits_value(text)]
    ELSE [valid |-> FALSE, type |-> "", value |-> 0]

\* None, as a value beside the decoded JSON values
None == [valid |-> FALSE, type |-> "None", value |-> 0]

\* Python truth of a decoded JSON value: "" and 0 are false
truthy(doc) ==
    IF doc.type = "str" THEN doc.value # <<>>
    ELSE IF doc.type = "int" THEN doc.value # 0
    ELSE FALSE

\* encryptor.load_keyobj(resp): the text "1" or "2" names a key; anything
\* else raises
load_keyobj(doc) ==
    IF doc.type = "str" /\ \E k \in RsaKeys : doc.value = <<48 + k.id>>
    THEN [valid |-> TRUE,
          key |-> CHOOSE k \in RsaKeys : doc.value = <<48 + k.id>>]
    ELSE [valid |-> FALSE, key |-> NoKey]

\* struct.pack('<4s16sB', b"FLUX", self.serial.bytes, req_code) + message
request_payload(req_code, message) == S_FLUX \o SerialBytes \o <<req_code>> \o message

\* encryptor.validate_signature(keyobj, payload, signature)
validate_signature(keyobj, payload, signature) ==
    E_verify(keyobj, payload, signature)

\* _parse_response(buf, resp_code) for a client whose self.remote_keyobj is
\* remote_keyobj.
parse_response(buf, resp_code, remote_keyobj) ==
    LET body == Drop(buf, 2)
        k == find(body, 0)
        payload == SubSeq(body, 1, k - 1)
        signature == SubSeq(body, k + 1, Len(body))
        doc == json_loads(payload)
        embedded == load_keyobj(doc)
    IN  IF k = 0 THEN Raise("ValueError")
        ELSE IF buf[1] # resp_code THEN Return(None)
        ELSE IF buf[2] # 0 THEN RuntimeError(<<payload>>)
        ELSE IF ~doc.valid THEN Raise("ValueError")
        ELSE IF resp_code = CODE_RESPONSE_RSA_KEY
        THEN IF ~embedded.valid THEN Raise("load_keyobj")
             ELSE IF validate_signature(embedded.key, payload, signature)
             THEN Return(doc) ELSE Return(None)
        ELSE IF validate_signature(remote_keyobj, payload, signature)
             THEN Return(doc) ELSE Return(None)

\* Payloads a datagram may carry: the keys "1" and "2", the number 0, a text
\* that is no JSON
DatagramPayloads == {<<34, 49, 34>>, <<34, 50, 34>>, <<48>>, <<120>>}

\* What may stand behind the payload: nothing (no NUL either), or a NUL and
\* a signature by one of the keys, or a NUL and a block that is no signature
datagram_tails(payload) ==
    {<<>>, <<0, 9, 9>>} \cup {<<0>> \o E_sign(k, payload) : k \in RsaKeys}

\* The datagrams recvfrom may deliver
Datagrams ==
    UNION {{<<code, status>> \o p \o t : t \in datagram_tails(p)} :
              code \in {CODE_RESPONSE_RSA_KEY, CODE_RESPONSE_OTHER},
              status \in {0, 1}, p \in DatagramPayloads}

InitRequest ==
    /\ pc = "make_request"
    /\ \E remote \in RsaKeys :
         self = [remote_keyobj |-> remote, remote_addr |-> "255.255.255.255"]
    /\ loc \in {[req_code |-> c[1], resp_code |-> c[2], message |-> <<>>,
                 data |-> <<>>, received |-> 0] :
                    c \in {<<CODE_RSA_KEY, CODE_RESPONSE_RSA_KEY>>,
                           <<CODE_OTHER, CODE_RESPONSE_OTHER>>}}
    /\ wire = <<>> /\ rx = <<>> /\ peer_closed = FALSE
    /\ outcome = NoOutcome

\* Lines 107-114: build the request and broadcast it
MakeRequestSend ==
    /\ pc = "make_request"
    /\ wire' = wire \o request_payload(
                   loc.req_code,
                   IF loc.message # <<>>
                   THEN E_rsa_encrypt(self.remote_keyobj, loc.message)
                   ELSE loc.message)
    /\ pc' = "select"
    /\ UNCHANGED <<self, loc, rx, peer_closed, outcome>>

\* Lines 116-122 when a datagram arrives within the timeout
MakeRequestRecv ==
    /\ pc = "select" /\ loc.received < MaxDatagrams
    /\ \E data \in Datagrams :
         LET resp == parse_response(data, loc.resp_code, self.remote_keyobj)
         IN  /\ loc' = [loc EXCEPT !.data = data, !.received = @ + 1]
             /\ IF resp.kind = "raise"
                THEN pc' = "done" /\ outcome' = resp
                ELSE IF truthy(resp.value)
                THEN pc' = "done" /\ outcome' = resp
                ELSE UNCHANGED <<pc, outcome>>
    /\ UNCHANGED <<self, wire, rx, peer_closed>>

\* Line 116 when select times out: the loop ends and None is returned
MakeRequestTimeout ==
    /\ pc = "select"
    /\ pc' = "done"
    /\ outcome' = Return(None)
    /\ UNCHANGED <<self, loc, wire, rx, peer_closed>>

NextRequest == MakeRequestSend \/ MakeRequestRecv \/ MakeRequestTimeout

SpecRequest == InitRequest /\ [][NextRequest]_vars

\* The signature of a datagram verifies: a NUL separates payload and
\* signature, and the signature is one by the key that has to sign the
\* response (the key in the payload for the public-key response, the
\* device's key otherwise) over the payload
SignatureVerifies(buf, resp_code, remote_keyobj) ==
    LET body == SubSeq(buf, 3, Len(buf))
    IN  \E k \in 1..Len(body) :
          /\ body[k] = 0 /\ \A j \in 1..(k - 1) : body[j] # 0
          /\ LET payload == SubSeq(body, 1, k - 1)
                 signature == SubSeq(body, k + 1, Len(body))
             IN  \E key \in RsaKeys :
                   /\ signature = E_sign(key, payload)
                   /\ IF resp_code = CODE_RESPONSE_RSA_KEY
                      THEN payload = <<34, 48 + key.id, 34>>
                      ELSE key = remote_keyobj

\* C6: a datagram whose signature does not verify is passed over silently,
\* whatever its status byte and with or without a NUL: after it has been
\* handled make_request has neither returned nor raised and is waiting for
\* the next reply.
C6_BadSignatureIsDiscarded ==
    loc.data # <<>>
    /\ ~SignatureVerifies(loc.data, loc.resp_code, self.remote_keyobj)
    /\ ~(pc = "done" /\ outcome = Return(None)) =>
        pc = "select" /\ outcome = NoOutcome

\* ---------------------------------------------------------------------------
\* upload_stream: the progress callback and the order of the exchange
\* ---------------------------------------------------------------------------

\* The send loop of upload_stream has been left normally: the negotiation
\* answered "continue" and the source supplied every declared byte
UploadLoopLeft ==
    /\ pc = "done"
    /\ loc.resps >= 1
    /\ loc.upload_ret = S_continue
    /\ loc.lbuf # 0
    /\ loc.sent >= loc.length

\* C11: the progress callback is optional. Without a callback an upload that
\* negotiated "continue" and whose source supplied all declared bytes invokes
\* no callback, reads the final response frame, and returns when that frame
\* is "ok"; with a callback the last invocation follows the send loop and
\* carries the final totals.
C11_CallbackIsOptional ==
    UploadLoopLeft =>
        IF loc.progress_callback
        THEN /\ loc.calls # <<>>
             /\ loc.calls[Len(loc.calls)] = loc.sent
        ELSE /\ loc.calls = <<>>
             /\ loc.resps = 2
             /\ (loc.final_ret = S_ok => outcome = [kind |-> "return"])

\* C20: upload_stream follows negotiate -> data -> final response. Exactly one
\* framed command "<verb> <mimetype> <length> <destination>" is written and
\* one response read before any data byte is forwarded; a response other than
\* "continue" fails the call with the raw response text and no data byte is
\* forwarded; data chunks go out as read, without a frame; once all declared
\* bytes have been sent exactly one final response frame is read, never
\* earlier, and a final frame other than "ok" raises the error parsed from it.
C20_NegotiateDataFinal ==
    /\ pc # "upload_stream" =>
           wire = send_cmd_frame(
                      upload_cmd(S_upload, S_mimetype, loc.length, S_upload_to))
    /\ loc.chunks # <<>> => loc.resps >= 1 /\ loc.upload_ret = S_continue
    /\ loc.resps >= 1 /\ loc.upload_ret # S_continue =>
           /\ pc = "done"
           /\ outcome = [kind |-> "raise", error |-> "RuntimeError",
                         args |-> <<loc.upload_ret>>]
           /\ loc.chunks = <<>>
           /\ loc.resps = 1
    /\ Sum(loc.chunks) = loc.sent
    /\ loc.resps = 2 => pc = "done" /\ loc.sent >= loc.length
    /\ UploadLoopLeft => loc.resps = 2
    /\ loc.resps = 2 /\ loc.final_ret # S_ok =>
           outcome = raise_error(decode_ignore(loc.final_ret))

\* ---------------------------------------------------------------------------
\* get_resp on a channel whose peer stays silent or closes at any point
\* ---------------------------------------------------------------------------

\* The longest byte stream handed to one get_resp call
MaxStream == 4

\* Bytes of those streams: prefix bytes 0, 1, 2 and the payload byte "A"
RespBytes == {0, 1, 2, 65}

InitResp ==
    /\ pc = "get_resp"
    /\ self = [sock |-> "RobotSocketV2"]
    /\ rx \in SeqsUpTo(RespBytes, MaxStream)
    /\ peer_closed \in BOOLEAN
    /\ wire = <<>>
    /\ loc = [input |-> rx, timeout |-> 30]
    /\ outcome = NoOutcome

\* One call of get_resp(timeout=30.0)
GetRespCall ==
    /\ pc = "get_resp"
    /\ LET r == get_resp(rx, peer_closed)
       IN  /\ rx' = r.rest
           /\ outcome' = IF r.kind = "ok"
                         THEN [kind |-> "return", value |-> r.data]
                         ELSE Raise(r.kind)
    /\ pc' = "done"
    /\ UNCHANGED <<self, loc, wire, peer_closed>>

NextResp == GetRespCall

SpecResp == InitResp /\ [][NextResp]_vars

\* The stream ends before the frame it starts is complete: no prefix byte,
\* one prefix byte, or fewer payload bytes than the prefix declares
FrameCut(s) ==
    \/ Len(s) < 2
    \/ Len(s) - 2 < unpack_H(Take(s, 2))

\* C16: get_resp returns a complete payload of the declared length or raises.
\* A channel not readable within the timeout gives a timeout error and no
\* byte is consumed; a peer closing before or inside a frame gives a
\* broken-connection error; a returned payload is never shorter than the
\* prefix declared.
C16_CompleteOrRaises ==
    pc = "done" =>
        /\ loc.input = <<>> /\ ~peer_closed =>
               outcome = Raise("TimeoutError") /\ rx = loc.input
        /\ peer_closed /\ FrameCut(loc.input) => outcome = Raise("EPIPE")
        /\ outcome.kind = "return" =>
               /\ ~FrameCut(loc.input)
               /\ Len(outcome.value) = unpack_H(Take(loc.input, 2))

\* ---------------------------------------------------------------------------
\* quit_raw_mode: what the zero count counts, and where framing resumes
\* ---------------------------------------------------------------------------

\* s holds n zero bytes in a row somewhere
HasZeroRun(s, n) ==
    \E i \in 1..(Len(s) - n + 1) : \A j \in i..(i + n - 1) : s[j] = 0

\* C17: the zero count of quit_raw_mode counts consecutive zeros only. When
\* the scan has ended at a nonzero byte, the bytes read before that byte hold
\* a run of at least 8 zeros in a row; zeros interleaved with nonzero bytes
\* never end the scan, however many they are.
C17_ConsecutiveZerosOnly ==
    loc.ended_at > 0 =>
        HasZeroRun(SubSeq(loc.input, 1, loc.ended_at - 1), SyncThreshold)

\* The device answered "quit" with k zero bytes and then the frame of p
ZerosThenFrame(k, p) == loc.input = Zeros(k) \o device_frame(p)

\* C18: after the resynchronization framed parsing resumes at the first
\* nonzero byte, which is the first byte of the response's length prefix: for
\* k >= 8 zero bytes followed immediately by a well-formed frame F,
\* quit_raw_mode interprets exactly F (its result is that of the payload
\* under the ok/error convention) and leaves no byte of F unread and reads
\* none behind it.
C18_FrameAfterZerosIsRead ==
    \A k \in SyncThreshold..MaxZeros : \A p \in {S_ok, S_error_A_B} :
        ZerosThenFrame(k, p) /\ pc = "done" =>
            /\ outcome = ok_or_error(p, S_ok)
            /\ rx = <<>>
            /\ loc.ended_at = k + 1

\* ---------------------------------------------------------------------------
\* Handshake: the status decides, and the session keys stay
\* ---------------------------------------------------------------------------

\* The secret block the device put behind the status, as __init__ decrypts it
DecryptedSecret ==
    E_rsa_decrypt(loc.rsakey,
                  recv_waitall(Drop(loc.device, 16), E_rsa_size(loc.rsakey)))

\* The constructor has read the status
StatusRead == pc \in {"done", "session", "closed"}

\* What holds of every state once the status is read
C15_StatusDecides ==
    /\ self.sock # NoKey =>
           /\ StatusRead /\ loc.status = S_OK
           /\ self.sock.key = SubSeq(DecryptedSecret.plain, 1, 32)
           /\ self.sock.iv = SubSeq(DecryptedSecret.plain, 33, 48)
           /\ Len(self.sock.key) = 32 /\ Len(self.sock.iv) = 16
    /\ StatusRead /\ loc.status = S_OK /\ DecryptedSecret.valid =>
           self.sock # NoKey
    /\ StatusRead /\ loc.status # S_OK =>
           /\ pc = "done"
           /\ self.sock = NoKey
           /\ outcome = [kind |-> "raise", error |-> "RuntimeError",
                         args |-> <<"Handshake failed: ", loc.status>>]
           /\ rx = Drop(loc.device, 16)

----------------------------------------------------------------------------
(* UpnpBase: construction, discovery, address probes, version gate and the *)
(* fetch of the public key                                                 *)

\* the most replies the discover calls of one construction deliver
MaxReplies == 3

S_TIMEOUT == <<84, 73, 77, 69, 79, 85, 84>>
S_fetch_public_key ==
    <<102, 101, 116, 99, 104, 32, 112, 117, 98, 108, 105, 99, 32, 107, 101,
      121>>
S_Can_not_find_device ==
    <<67, 97, 110, 32, 110, 111, 116, 32, 102, 105, 110, 100, 32, 100, 101,
      118, 105, 99, 101>>
S_version_too_old ==
    <<102, 108, 117, 120, 109, 111, 110, 105, 116, 111, 114, 32, 118, 101,
      114, 115, 105, 111, 110, 32, 105, 115, 32, 116, 111, 111, 32, 111, 108,
      100>>
S_version_too_new ==
    <<102, 108, 117, 120, 109, 111, 110, 105, 116, 111, 114, 32, 118, 101,
      114, 115, 105, 111, 110, 32, 105, 115, 32, 116, 111, 111, 32, 110, 101,
      119>>

\* StrictVersion values: major.minor, with pre = n > 0 for the alpha n of
\* that release and pre = 0 for the release itself
Version(major, minor, pre) == [major |-> major, minor |-> minor, pre |-> pre]

\* StrictVersion.__lt__: numbers first; a prerelease precedes its release
version_lt(a, b) ==
    \/ a.major < b.major
    \/ a.major = b.major /\ a.minor < b.minor
    \/ /\ a.major = b.major /\ a.minor = b.minor
       /\ \/ a.pre > 0 /\ b.pre = 0
          \/ a.pre > 0 /\ b.pre > 0 /\ a.pre < b.pre

\* StrictVersion("0.10a1") and StrictVersion("0.12")
V_0_10a1 == Version(0, 10, 1)
V_0_12 == Version(0, 12, 0)

\* Versions a device may announce: 0.9, 0.10a1, 0.11, 0.12a1, 0.12, 0.13
Versions ==
    {Version(0, 9, 0), V_0_10a1, Version(0, 11, 0), Version(0, 12, 1),
     V_0_12, Version(0, 13, 0)}

\* remote_version before a profile is loaded
NoVersion == Version(0, 0, 0)

\* self.serial.hex of the target, and the serial of another device
TargetSerial == "11121314"
OtherSerial == "99989796"

\* the addresses a profile may list, as (address, port) pairs, and the value
\* of the class attribute remote_addr
AddrA == <<"192.168.1.5", 1901>>
AddrB == <<"10.0.0.5", 1901>>
AddrLists == {<<>>, <<AddrA>>, <<AddrA, AddrB>>}
BroadcastAddr == "255.255.255.255"

\* time() during the lookup
LookupNow == 100

\* The replies a discover call may hand to its callback: the keyword
\* arguments of _load_profile and _ensure_remote_ipaddr
Profile(serial, version, ipaddrs) ==
    [serial |-> serial,
     model_id |-> IF serial = TargetSerial THEN <<109, 49>> ELSE <<109, 50>>,
     timestemp |-> IF serial = TargetSerial THEN LookupNow + 30
                                            ELSE LookupNow - 30,
     version |-> version,
     name |-> IF serial = TargetSerial THEN <<84>> ELSE <<79>>,
     has_password |-> serial = TargetSerial,
     ipaddrs |-> ipaddrs]

DiscoverReplies ==
    {Profile(TargetSerial, v, a) : v \in Versions, a \in AddrLists}
    \cup {Profile(OtherSerial, v, <<AddrB>>) : v \in {Version(0, 11, 0)}}

NoReply == Profile("", NoVersion, <<>>)

\* if serial == self.serial.hex, with the comparison dropped
serial_matches_any(serial, own) == TRUE

\* if serial == self.serial.hex
serial_matches(serial, own) == serial = own

\* _load_profile: the attributes of self after the callback, and whether it
\* called discover_instance.stop()
load_profile(obj, reply) ==
    IF serial_matches(reply.serial, obj.serial)
    THEN [obj |-> [obj EXCEPT !.name = reply.name,
                              !.model_id = reply.model_id,
                              !.timedelta = reply.timestemp - LookupNow,
                              !.remote_version = reply.version,
                              !.has_password = reply.has_password,
                              !.remote_addrs = reply.ipaddrs,
                              !.inited = TRUE],
          stop |-> TRUE]
    ELSE [obj |-> obj, stop |-> FALSE]

\* _ensure_remote_ipaddr, for a discover instance whose ipaddr is d_ipaddr
ensure_remote_ipaddr(obj, reply, d_ipaddr) ==
    IF serial_matches(reply.serial, obj.serial)
    THEN [obj |-> [obj EXCEPT !.remote_addr = d_ipaddr], stop |-> TRUE]
    ELSE [obj |-> obj, stop |-> FALSE]

\* if not forcus_broadcast, with the probes made in either case
probes_always(forcus_broadcast) == TRUE

\* if not forcus_broadcast
probes_wanted(forcus_broadcast) == ~forcus_broadcast

\* self.remote_version >= StrictVersion("0.12"), loosened to >
version_too_new_strict(v) == version_lt(V_0_12, v)

\* self.remote_version < StrictVersion("0.10a1")
version_too_old(v) == version_lt(v, V_0_10a1)

\* self.remote_version >= StrictVersion("0.12")
version_too_new(v) == ~version_lt(v, V_0_12)

\* fetch_publickey(self, retry=20)
FetchRetries == 20

\* if retry > 0, loosened to >= 0
retry_left_one_more(retry) == retry >= 0

\* if retry > 0
retry_left(retry) == retry > 0

\* The pubkey argument when it is given: the key text "1"
PubkeyArg == [valid |-> TRUE, type |-> "str", value |-> <<49>>]

InitUpnp ==
    /\ pc = "__init__"
    /\ self = [serial |-> TargetSerial, remote_addr |-> BroadcastAddr,
               name |-> <<>>, model_id |-> <<>>, timedelta |-> 0,
               remote_version |-> NoVersion, has_password |-> FALSE,
               remote_addrs |-> <<>>, inited |-> FALSE,
               sock |-> "None", pubkey |-> None, remote_keyobj |-> NoKey]
    /\ \E given \in BOOLEAN, f \in BOOLEAN, t \in {"INF", "finite"} :
         loc = [pubkey |-> IF given THEN PubkeyArg ELSE None,
                forcus_broadcast |-> f, lookup_timeout |-> t,
                handled |-> 0, reply |-> NoReply,
                d_ipaddr |-> "",
                i |-> 0, probed |-> <<>>, answered |-> {},
                retry |-> FetchRetries, requests |-> 0, received |-> 0,
                timeouts |-> 0, resp |-> None]
    /\ wire = <<>> /\ rx = <<>> /\ peer_closed = FALSE
    /\ outcome = NoOutcome

\* Lines 22-31 and 51-57: the attributes set before the lookup; _inited is
\* cleared and the discover instance created and started
UpnpInit ==
    /\ pc = "__init__"
    /\ self' = [self EXCEPT !.inited = FALSE]
    /\ loc' = [loc EXCEPT !.handled = 0]
    /\ pc' = "lookup"
    /\ UNCHANGED <<wire, rx, peer_closed, outcome>>

\* d.discover(self._load_profile, ...) hands one reply to _load_profile; a
\* stop() ends the discover call
LoadProfile ==
    /\ pc = "lookup" /\ loc.handled < MaxReplies
    /\ \E reply \in DiscoverReplies :
         LET r == load_profile(self, reply)
         IN  /\ self' = r.obj
             /\ loc' = [loc EXCEPT !.handled = @ + 1, !.reply = reply]
             /\ pc' = IF r.stop THEN "looked_up" ELSE pc
    /\ UNCHANGED <<wire, rx, peer_closed, outcome>>

\* The discover call ends because lookup_timeout has passed; with the
\* default float("INF") it never does
LookupTimeout ==
    /\ pc = "lookup" /\ loc.lookup_timeout # "INF"
    /\ pc' = "looked_up"
    /\ UNCHANGED <<self, loc, wire, rx, peer_closed, outcome>>

\* The state of the for loop over self.remote_addrs when it turns to the
\* candidate of index i: d.ipaddr = ipaddr[0] and a new discover call, or
\* the end of update_remote_infomation
probe_candidate(l, addrs, i) ==
    IF i <= Len(addrs)
    THEN [pc |-> "probe",
          loc |-> [l EXCEPT !.i = i, !.d_ipaddr = addrs[i][1],
                            !.probed = Append(@, addrs[i][1])]]
    ELSE [pc |-> "version", loc |-> l]

\* Lines 59-63: the test of _inited and the entry into the for loop
LookupEnd ==
    /\ pc = "looked_up"
    /\ IF ~self.inited
       THEN /\ pc' = "done"
            /\ outcome' = RuntimeError(<<S_Can_not_find_device>>)
            /\ loc' = loc
       ELSE /\ outcome' = outcome
            /\ IF probes_wanted(loc.forcus_broadcast)
               THEN LET n == probe_candidate(loc, self.remote_addrs, 1)
                    IN  pc' = n.pc /\ loc' = n.loc
               ELSE pc' = "version" /\ loc' = loc
    /\ UNCHANGED <<self, wire, rx, peer_closed>>

\* The replies a direct probe may get: the profile of the target or the
\* reply of another device
ProbeReplies ==
    {r \in DiscoverReplies :
        \/ r.serial # TargetSerial
        \/ r.version = self.remote_version /\ r.ipaddrs = self.remote_addrs}

\* d.discover(self._ensure_remote_ipaddr, timeout=1.5) hands one reply to
\* _ensure_remote_ipaddr; a stop() ends the call and the loop goes on
EnsureRemoteIpaddr ==
    /\ pc = "probe" /\ loc.handled < MaxReplies
    /\ \E reply \in ProbeReplies :
         LET r == ensure_remote_ipaddr(self, reply, loc.d_ipaddr)
             l == [loc EXCEPT
                     !.handled = @ + 1, !.reply = reply,
                     !.answered = IF reply.serial = self.serial
                                  THEN @ \cup {loc.d_ipaddr} ELSE @]
             n == probe_candidate(l, self.remote_addrs, loc.i + 1)
         IN  /\ self' = r.obj
             /\ IF r.stop THEN pc' = n.pc /\ loc' = n.loc
                          ELSE pc' = pc /\ loc' = l
    /\ UNCHANGED <<wire, rx, peer_closed, outcome>>

\* The probe's timeout of 1.5 s passes without a stop()
ProbeTimeout ==
    /\ pc = "probe"
    /\ LET n == probe_candidate(loc, self.remote_addrs, loc.i + 1)
       IN  pc' = n.pc /\ loc' = n.loc
    /\ UNCHANGED <<self, wire, rx, peer_closed, outcome>>

\* Lines 33-46 up to the call of fetch_publickey: the version tests, the
\* socket, and the key when it was given
VersionGate ==
    /\ pc = "version"
    /\ IF version_too_old(self.remote_version)
       THEN /\ pc' = "done" /\ self' = self
            /\ outcome' = RuntimeError(<<S_version_too_old>>)
       ELSE IF version_too_new(self.remote_version)
       THEN /\ pc' = "done" /\ self' = self
            /\ outcome' = RuntimeError(<<S_version_too_new>>)
       ELSE IF ~truthy(loc.pubkey)
       THEN /\ pc' = "fetch_publickey"
            /\ self' = [self EXCEPT !.sock = "udp"]
            /\ outcome' = outcome
       ELSE /\ pc' = "done"
            /\ self' = [self EXCEPT !.sock = "udp", !.pubkey = loc.pubkey,
                          !.remote_keyobj = load_keyobj(loc.pubkey).key]
            /\ outcome' = [kind |-> "return"]
    /\ UNCHANGED <<loc, wire, rx, peer_closed>>

\* fetch_publickey(retry) enters make_request(CODE_RSA_KEY,
\* CODE_RESPONSE_RSA_KEY, b""), which sends the request (lines 107-114)
FetchSend ==
    /\ pc = "fetch_publickey"
    /\ wire' = wire \o request_payload(CODE_RSA_KEY, <<>>)
    /\ loc' = [loc EXCEPT !.requests = @ + 1, !.received = 0]
    /\ pc' = "fetch_select"
    /\ UNCHANGED <<self, rx, peer_closed, outcome>>

\* make_request reads a datagram (116-122); a truthy response is returned
\* through fetch_publickey (95-97) into __init__ (44-46)
FetchRecv ==
    /\ pc = "fetch_select" /\ loc.received < MaxDatagrams
    /\ \E data \in Datagrams :
         LET resp == parse_response(data, CODE_RESPONSE_RSA_KEY,
                                    self.remote_keyobj)
         IN  IF resp.kind = "raise"
             THEN /\ pc' = "done" /\ outcome' = resp
                  /\ loc' = [loc EXCEPT !.received = @ + 1]
                  /\ self' = self
             ELSE IF truthy(resp.value)
             THEN /\ pc' = "done" /\ outcome' = [kind |-> "return"]
                  /\ loc' = [loc EXCEPT !.received = @ + 1,
                                        !.resp = resp.value]
                  /\ self' = [self EXCEPT
                                !.pubkey = resp.value,
                                !.remote_keyobj = load_keyobj(resp.value).key]
             ELSE /\ UNCHANGED <<pc, outcome, self>>
                  /\ loc' = [loc EXCEPT !.received = @ + 1]
    /\ UNCHANGED <<wire, rx, peer_closed>>

\* make_request's select times out and it returns None: fetch_publickey
\* calls itself with retry - 1 or raises (98-103)
FetchTimeout ==
    /\ pc = "fetch_select"
    /\ IF retry_left(loc.retry)
       THEN /\ pc' = "fetch_publickey"
            /\ loc' = [loc EXCEPT !.retry = @ - 1, !.timeouts = @ + 1]
            /\ outcome' = outcome
       ELSE /\ pc' = "done"
            /\ loc' = [loc EXCEPT !.timeouts = @ + 1]
            /\ outcome' = RuntimeError(<<S_TIMEOUT, S_fetch_public_key>>)
    /\ UNCHANGED <<self, wire, rx, peer_closed>>

NextUpnp ==
    \/ UpnpInit \/ LoadProfile \/ LookupTimeout \/ LookupEnd
    \/ EnsureRemoteIpaddr \/ ProbeTimeout \/ VersionGate
    \/ FetchSend \/ FetchRecv \/ FetchTimeout

SpecUpnp == InitUpnp /\ [][NextUpnp]_vars


\* ---------------------------------------------------------------------------
\* fetch_publickey: the retry bound
\* ---------------------------------------------------------------------------

\* fetch_publickey is running
Fetching == pc \in {"fetch_publickey", "fetch_select"}

\* What is left of the fetch: retries first, then the steps of the request
\* under way
FetchMeasure(p, l) ==
    IF p = "fetch_publickey"
    THEN (l.retry + 1) * (MaxDatagrams + 3) + MaxDatagrams + 2
    ELSE IF p = "fetch_select"
    THEN (l.retry + 1) * (MaxDatagrams + 3) + MaxDatagrams + 1 - l.received
    ELSE 0

C12_RetryBound ==
    /\ loc.requests <= FetchRetries + 1
    /\ loc.retry \in 0..FetchRetries
    /\ Len(wire) = loc.requests * Len(request_payload(CODE_RSA_KEY, <<>>))
    /\ truthy(loc.resp) =>
           /\ pc = "done" /\ outcome = [kind |-> "return"]
           /\ self.pubkey = loc.resp
    /\ pc = "done" /\ loc.requests > 0 /\ loc.timeouts = loc.requests =>
           /\ loc.requests = FetchRetries + 1
           /\ outcome = RuntimeError(<<S_TIMEOUT, S_fetch_public_key>>)

MismatchedReplyStep ==
    /\ pc \in {"lookup", "probe"}
    /\ loc'.handled = loc.handled + 1
    /\ loc'.reply.serial # self.serial

\* No profile has been accepted: the attributes _load_profile writes are as
\* they were, and a lookup that has ended has raised
C13_NothingFound ==
    ~self.inited =>
        /\ self.name = <<>> /\ self.model_id = <<>> /\ self.timedelta = 0
        /\ self.remote_version = NoVersion /\ self.remote_addrs = <<>>
        /\ self.remote_addr = BroadcastAddr
        /\ pc \in {"__init__", "lookup", "looked_up", "done"}
        /\ pc = "done" => outcome = RuntimeError(<<S_Can_not_find_device>>)

\* C13: a discovery reply whose serial differs from the target serial never
\* changes the client: _load_profile leaves name, model id, clock offset,
\* version, addresses and the found flag as they are and does not stop the
\* listener, _ensure_remote_ipaddr leaves remote_addr as it is; when no
\* matching profile arrives before the lookup ends, construction fails with
\* the device-not-found error.
C13_OtherSerialIsIgnored ==
    /\ []C13_NothingFound
    /\ [][MismatchedReplyStep => self' = self /\ pc' = pc]_vars

\* Another device answered, the lookup ended, construction failed
C13_Witness ==
    /\ pc = "done"
    /\ ~self.inited
    /\ loc.handled > 0
    /\ loc.reply.serial = OtherSerial
    /\ outcome = RuntimeError(<<S_Can_not_find_device>>)

\* The version announced by the accepted profile lies in [0.10a1, 0.12)
VersionInRange ==
    /\ ~version_lt(self.remote_version, V_0_10a1)
    /\ version_lt(self.remote_version, V_0_12)

\* C14: construction succeeds only for a discovered version v with
\* 0.10a1 <= v < 0.12. For a version outside, construction fails with a
\* version error; no UDP socket has been created and no key request sent.
C14_VersionGate ==
    /\ pc = "done" /\ outcome.kind = "return" => VersionInRange
    /\ self.sock # "None" \/ wire # <<>> \/ Fetching => VersionInRange
    /\ pc = "done" /\ self.inited /\ ~VersionInRange =>
           /\ outcome = RuntimeError(<<IF version_lt(self.remote_version,
                                                     V_0_10a1)
                                       THEN S_version_too_old
                                       ELSE S_version_too_new>>)
           /\ self.sock = "None"
           /\ wire = <<>>
           /\ self.pubkey = None /\ self.remote_keyobj = NoKey

\* The version 0.12 itself was announced and construction failed
C14_Witness ==
    /\ pc = "done"
    /\ self.remote_version = V_0_12
    /\ outcome = RuntimeError(<<S_version_too_new>>)

\* ipaddr[0] of every candidate, in the order of the list
RECURSIVE candidate_addresses(_)
candidate_addresses(addrs) ==
    IF addrs = <<>> THEN <<>>
    ELSE <<Head(addrs)[1]>> \o candidate_addresses(Tail(addrs))

\* update_remote_infomation has returned
LookupReturned ==
    \/ pc \in {"version", "fetch_publickey", "fetch_select"}
    \/ pc = "done" /\ self.inited

\* C19: without focused broadcast every candidate address of the accepted
\* profile is probed exactly once, in the order of the list, after the
\* profile was found; afterwards remote_addr is an address whose probe was
\* answered with the target serial when there is one, and its previous value
\* when there is none. With focused broadcast nothing is probed and
\* remote_addr keeps its value.
C19_ProbesInOrder ==
    /\ loc.probed # <<>> => self.inited /\ ~loc.forcus_broadcast
    /\ loc.probed = Take(candidate_addresses(self.remote_addrs),
                         Len(loc.probed))
    /\ LookupReturned /\ ~loc.forcus_broadcast =>
           loc.probed = candidate_addresses(self.remote_addrs)
    /\ IF loc.answered # {} THEN self.remote_addr \in loc.answered
                            ELSE self.remote_addr = BroadcastAddr
    /\ loc.forcus_broadcast =>
           loc.probed = <<>> /\ self.remote_addr = BroadcastAddr

\* Both candidates were probed and both answered: the later one stands
C19_Witness ==
    /\ LookupReturned
    /\ Len(loc.probed) = 2
    /\ Cardinality(loc.answered) = 2
    /\ self.remote_addr = loc.probed[2]

====
